---- MODULE Spec2Model ----
(***************************************************************************)
(* The request pipeline of the local gateway (src/src/proxy.ts):           *)
(* proxyRequest with its dedup check, balance check, streaming preamble,   *)
(* fallback loop and response translation, run by several concurrent       *)
(* requests that share one RequestDeduplicator and one SessionStore.       *)
(*                                                                         *)
(* One action is one run of the handler between two suspension points      *)
(* (await) or one event callback (timer, 'close').                         *)
(***************************************************************************)
EXTENDS Integers, Sequences, FiniteSets, TLC

(* ------------------------------------------------------------------ *)
(* Bounds of the model                                                 *)
(* ------------------------------------------------------------------ *)
NReq == 2          \* request slots of the concurrent specification
MaxTicks == 2      \* clock steps
TickMs == 15000    \* length of a clock step in ms
MaxHb == 1         \* timer-driven heartbeats per streaming response

(* ------------------------------------------------------------------ *)
(* Program constants                                                   *)
(* ------------------------------------------------------------------ *)
MAX_FALLBACK_ATTEMPTS == 3
TTL_MS == 30000
AUTO_MODEL == "blockrun/auto"
AUTO_MODEL_SHORT == "auto"
FREE_MODEL == "nvidia/gpt-oss-120b"

None == "none"
Req == 1..NReq

(* ------------------------------------------------------------------ *)
(* Model aliases (models.ts)                                           *)
(* ------------------------------------------------------------------ *)
AliasKeys ==
  {"claude", "sonnet", "opus", "haiku", "gpt", "gpt4", "gpt5", "mini", "o3",
   "deepseek", "reasoner", "kimi", "gemini", "flash", "grok", "grok-fast",
   "grok-code", "nvidia", "gpt-120b", "free"}

MODEL_ALIASES ==
  [a \in AliasKeys |->
     CASE a \in {"claude", "sonnet"} -> "anthropic/claude-sonnet-4"
       [] a = "opus" -> "anthropic/claude-opus-4"
       [] a = "haiku" -> "anthropic/claude-haiku-4.5"
       [] a \in {"gpt", "gpt4"} -> "openai/gpt-4o"
       [] a = "gpt5" -> "openai/gpt-5.2"
       [] a = "mini" -> "openai/gpt-4o-mini"
       [] a = "o3" -> "openai/o3"
       [] a = "deepseek" -> "deepseek/deepseek-chat"
       [] a = "reasoner" -> "deepseek/deepseek-reasoner"
       [] a = "kimi" -> "moonshot/kimi-k2.5"
       [] a = "gemini" -> "google/gemini-2.5-pro"
       [] a = "flash" -> "google/gemini-2.5-flash"
       [] a = "grok" -> "xai/grok-3"
       [] a = "grok-fast" -> "xai/grok-4-fast-reasoning"
       [] a = "grok-code" -> "xai/grok-code-fast-1"
       [] a \in {"nvidia", "gpt-120b", "free"} -> FREE_MODEL]

\* MODEL_ALIASES is an object literal: a lookup of a name that is not an own
\* key finds the member of that name that Object.prototype has, if any
ObjectPrototypeKeys == {"constructor", "toString", "valueOf", "hasOwnProperty"}

\* the value of such a member: a function, not a string
Inherited(k) == "[Function: " \o k \o "]"

InheritedValues == {Inherited(k) : k \in ObjectPrototypeKeys}

IsString(v) == v \notin InheritedValues

\* MODEL_ALIASES[k]; None stands for undefined
AliasLookup(k) ==
  IF k \in AliasKeys THEN MODEL_ALIASES[k]
  ELSE IF k \in ObjectPrototypeKeys THEN Inherited(k)
  ELSE None

\* the names that model strings are built from in the model
BaseNames ==
  AliasKeys \cup ObjectPrototypeKeys \cup {MODEL_ALIASES[a] : a \in AliasKeys}
    \cup {"auto", "blockrun/auto", "foo"}

\* upper-case spellings used by the inputs
Upper(m) ==
  CASE m = "claude" -> "Claude"
    [] m = "auto" -> "AUTO"
    [] m = "gpt" -> "GPT"
    [] m = "blockrun/claude" -> "BlockRun/Claude"
    [] m = "constructor" -> "Constructor"
    [] OTHER -> m

Lowered == {"claude", "auto", "gpt", "blockrun/claude", "constructor"}

\* String.prototype.trim().toLowerCase() on the model names the model uses:
\* names in lower case without blanks, their upper-case spellings, and
\* either of them with a blank on both sides
Spellings(n) == {" " \o n \o " ", Upper(n), " " \o Upper(n) \o " "}

LowerNames == BaseNames \cup {"blockrun/" \o b : b \in BaseNames}

TrimLowerTable ==
  [m \in UNION {Spellings(n) : n \in LowerNames} \ LowerNames |->
     CHOOSE n \in LowerNames : m \in Spellings(n)]

TrimLower(m) == IF m \in DOMAIN TrimLowerTable THEN TrimLowerTable[m] ELSE m

PrefixTable ==
  [m \in {"blockrun/" \o b : b \in BaseNames} |->
     CHOOSE b \in BaseNames : m = "blockrun/" \o b]

\* normalized.slice("blockrun/".length) when normalized starts with
\* "blockrun/", None otherwise
StripBlockrun(m) == IF m \in DOMAIN PrefixTable THEN PrefixTable[m] ELSE None

\* what model.trim() throws when model is not a string
TypeError == "TypeError: model.trim is not a function"

resolveModelAlias(model) ==
  IF ~IsString(model) THEN TypeError
  ELSE
  LET normalized == TrimLower(model)
      resolved == AliasLookup(normalized)
      withoutPrefix == StripBlockrun(normalized) IN
  IF resolved # None THEN resolved
  ELSE IF withoutPrefix # None /\ AliasLookup(withoutPrefix) # None
       THEN AliasLookup(withoutPrefix)
       ELSE model

\* models of the catalog (BLOCKRUN_MODELS) that the model uses
Catalog ==
  {"auto", "anthropic/claude-sonnet-4", "openai/gpt-4o", "google/gemini-2.5-flash",
   "google/gemini-2.5-pro", "deepseek/deepseek-chat", FREE_MODEL}

\* estimateAmount returns undefined for a model that is not in the catalog
estimateAmount(modelId) == IF modelId \in Catalog THEN "amount" ELSE None

(* ------------------------------------------------------------------ *)
(* Router: route() and getFallbackChain()                              *)
(* ------------------------------------------------------------------ *)
Tiers == {"SIMPLE", "COMPLEX"}

\* tier configuration: SIMPLE as documented, COMPLEX overridden with a
\* fallback list longer than MAX_FALLBACK_ATTEMPTS
TierConfig ==
  [t \in Tiers |->
     IF t = "SIMPLE"
     THEN [primary |-> "google/gemini-2.5-flash",
           fallback |-> <<"deepseek/deepseek-chat">>]
     ELSE [primary |-> "anthropic/claude-sonnet-4",
           fallback |-> <<"openai/gpt-4o", "google/gemini-2.5-pro",
                          "deepseek/deepseek-chat">>]]

getFallbackChain(tier) == <<TierConfig[tier].primary>> \o TierConfig[tier].fallback

Prompts == {"short", "long"}

\* route(): a pure function of the prompt
route(prompt) ==
  LET t == IF prompt = "short" THEN "SIMPLE" ELSE "COMPLEX" IN
  [model |-> TierConfig[t].primary, tier |-> t]

(* ------------------------------------------------------------------ *)
(* Request bodies                                                      *)
(* ------------------------------------------------------------------ *)
\* A body is its bytes: the model and stream fields, the prompt of its
\* messages, and whether the bytes are the compact serialisation that
\* JSON.stringify(JSON.parse(bytes)) gives back.
Body(m, s, p, c) == [model |-> m, stream |-> s, prompt |-> p, compact |-> c]

\* JSON.stringify(parsed) after the gateway's rewrites
Rewrite(b, m) == [b EXCEPT !.model = m, !.stream = FALSE, !.compact = TRUE]

\* RequestDeduplicator.hash: SHA-256 of the bytes, taken as collision free
hash(b) == <<"sha256", b>>

\* a messages field that is not an array: messages.find is not a function
Malformed == "malformed"

\* bytes that JSON.parse rejects: no model and no stream flag are read from them
NotJson == Body("", FALSE, "not json", FALSE)

SessionIds == {"s1"}

NoSession == None

\* what a client sends: a body and the session header
Input(b, s) == [body |-> b, sess |-> s]

\* the requests of the model: auto requests (plain, streaming, with a session
\* header, with another prompt), an alias, and an explicit model in two
\* serialisations
Inputs ==
  { Input(Body("auto", FALSE, "short", TRUE), NoSession),
    Input(Body("auto", TRUE, "short", TRUE), NoSession),
    Input(Body("auto", FALSE, "short", TRUE), "s1"),
    Input(Body("auto", FALSE, "long", TRUE), "s1"),
    Input(Body("auto", FALSE, Malformed, TRUE), NoSession),
    Input(NotJson, NoSession),
    Input(Body("claude", FALSE, "short", TRUE), NoSession),
    Input(Body("anthropic/claude-sonnet-4", FALSE, "short", TRUE), NoSession),
    Input(Body("anthropic/claude-sonnet-4", FALSE, "short", FALSE), NoSession) }

(* ------------------------------------------------------------------ *)
(* Upstream answers                                                    *)
(* ------------------------------------------------------------------ *)
\* Assistant content is a sequence of pieces: plain text, think-style tags and
\* Kimi tokens (written with the ASCII bar, which the patterns accept too)
TEXT == "hi"
THINK_OPEN == "<think>"
THINK_CLOSE == "</think>"
KIMI_BEGIN == "<|begin_of_thinking|>"
KIMI_END == "<|end_of_thinking|>"
KimiTokens == {KIMI_BEGIN, KIMI_END}
ThinkTags == {THINK_OPEN, THINK_CLOSE}
Markers == KimiTokens \cup ThinkTags

\* one element of choices: message.content and whether message.tool_calls
\* is a non-empty array
Choice(content, tools) == [content |-> content, tools |-> tools]

\* an upstream 200 body: whether JSON.parse accepts it, whether its choices
\* field is an array, and the choices
Payload(parses, array, choices) ==
  [parses |-> parses, array |-> array, choices |-> choices]

\* "let upstream: Response | undefined" while no attempt has succeeded
NoUpstream == [undefined |-> TRUE]

PlainPayload == Payload(TRUE, TRUE, <<Choice(<<TEXT>>, FALSE)>>)

Contents ==
  { << >>, <<TEXT>>,
    <<THINK_OPEN, TEXT, THINK_CLOSE, TEXT>>,
    <<THINK_OPEN, TEXT, THINK_CLOSE>>,
    <<TEXT, THINK_CLOSE>>,
    <<KIMI_BEGIN, TEXT, KIMI_END, TEXT>>,
    <<KIMI_END, TEXT, THINK_OPEN>> }

WidePayloads ==
  {Payload(TRUE, TRUE, <<Choice(c, t)>>) : c \in Contents, t \in BOOLEAN}
    \cup { Payload(TRUE, TRUE, << >>), Payload(TRUE, FALSE, << >>),
           Payload(FALSE, FALSE, << >>),
           Payload(TRUE, TRUE, <<Choice(<<TEXT>>, FALSE), Choice(<< >>, TRUE)>>),
           Payload(TRUE, TRUE, <<Choice(<<THINK_OPEN, TEXT, THINK_CLOSE>>, TRUE),
                           Choice(<<TEXT, KIMI_END>>, FALSE)>>) }

NarrowPayloads == {PlainPayload}

\* what payFetch settles with: a response (status, and whether its body
\* matches one of PROVIDER_ERROR_PATTERNS) or a rejection
Http(st, m) == [kind |-> "http", status |-> st, match |-> m]
NetErr == [kind |-> "neterr", status |-> 0, match |-> FALSE]
AbortErr == [kind |-> "abort", status |-> 0, match |-> FALSE]

NarrowAnswers == {Http(200, FALSE), Http(503, FALSE), Http(404, FALSE)}
Statuses == {200, 400, 404, 429, 500, 501, 503}
WideAnswers == {Http(st, m) : st \in Statuses, m \in BOOLEAN} \cup {NetErr}

FALLBACK_STATUS_CODES == {400, 401, 402, 403, 429, 500, 502, 503, 504}

isProviderError(status, bodyMatches) ==
  IF status \notin FALLBACK_STATUS_CODES THEN FALSE
  ELSE IF status >= 500 THEN TRUE
  ELSE bodyMatches

\* tryModelRequest's result for an answer of payFetch
ModelRequestResult(ans) ==
  IF ans.kind = "http"
  THEN IF ans.status # 200
       THEN [success |-> FALSE, errorStatus |-> ans.status,
             errorBody |-> IF ans.match THEN "provider pattern" ELSE "other",
             isProviderError |-> isProviderError(ans.status, ans.match)]
       ELSE [success |-> TRUE, errorStatus |-> 0, errorBody |-> None,
             isProviderError |-> FALSE]
  ELSE [success |-> FALSE, errorStatus |-> 500,
        errorBody |-> IF ans.kind = "abort" THEN "aborted" ELSE "network",
        isProviderError |-> TRUE]

(* ------------------------------------------------------------------ *)
(* Responses                                                           *)
(* ------------------------------------------------------------------ *)
Frame(t, v) == [t |-> t, v |-> v]
HEARTBEAT == Frame("comment", <<"heartbeat">>)
DONE == Frame("data", <<"[DONE]">>)

NoResp == [status |-> 0, headers |-> {}, body |-> << >>]

SseHeadersEarly ==
  {<<"content-type", "text/event-stream">>, <<"cache-control", "no-cache">>,
   <<"connection", "keep-alive">>}
SseHeadersCached == {<<"content-type", "text/event-stream">>}
JsonHeadersSent == {<<"Content-Type", "application/json">>}
JsonHeadersCached == {<<"content-type", "application/json">>}

\* headers of an upstream 200 response
UpstreamHeaders ==
  {<<"content-type", "application/json">>, <<"transfer-encoding", "chunked">>,
   <<"x-request-id", "u">>}
HopByHop == {"transfer-encoding", "connection", "content-encoding"}
responseHeaders == {h \in UpstreamHeaders : h[1] \notin HopByHop}

\* a replace(re, "") of a block pattern: from an opening piece to the first
\* closing piece after it, leftmost first
RECURSIVE StripBlocks(_, _, _)
StripBlocks(s, open, close) ==
  IF s = << >> THEN s
  ELSE IF Head(s) = open /\ \E k \in 2..Len(s) : s[k] = close
       THEN LET k == CHOOSE j \in 2..Len(s) :
                       s[j] = close /\ \A i \in 2..(j - 1) : s[i] # close
            IN StripBlocks(SubSeq(s, k + 1, Len(s)), open, close)
       ELSE <<Head(s)>> \o StripBlocks(Tail(s), open, close)

\* KIMI_BLOCK_RE, KIMI_TOKEN_RE, THINKING_BLOCK_RE, THINKING_TAG_RE in turn
stripThinkingTokens(content) ==
  LET c1 == StripBlocks(content, KIMI_BEGIN, KIMI_END)
      c2 == SelectSeq(c1, LAMBDA x : x \notin KimiTokens)
      c3 == StripBlocks(c2, THINK_OPEN, THINK_CLOSE) IN
  SelectSeq(c3, LAMBDA x : x \notin ThinkTags)

\* the chunks of a choice, with a content chunk whatever the content
ChoiceEventsAlwaysContent(choice, index) ==
  LET content == stripThinkingTokens(choice.content) IN
  <<Frame("data", <<"role", index>>)>>
    \o <<Frame("data", <<"content", index, content>>)>>
    \o (IF choice.tools THEN <<Frame("data", <<"tool_calls", index>>)>> ELSE << >>)
    \o <<Frame("data", <<"finish", index>>)>>

\* the chunks written for one choice: role, content (if any is left after
\* stripping), tool_calls (if any), finish_reason
ChoiceEvents(choice, index) ==
  LET content == stripThinkingTokens(choice.content) IN
  <<Frame("data", <<"role", index>>)>>
    \o (IF content # << >> THEN <<Frame("data", <<"content", index, content>>)>> ELSE << >>)
    \o (IF choice.tools THEN <<Frame("data", <<"tool_calls", index>>)>> ELSE << >>)
    \o <<Frame("data", <<"finish", index>>)>>

RECURSIVE AllChoiceEvents(_, _)
AllChoiceEvents(choices, k) ==
  IF k > Len(choices) THEN << >>
  ELSE ChoiceEvents(choices[k], k) \o AllChoiceEvents(choices, k + 1)

\* the SSE events of a successful upstream body: per-choice chunks, nothing
\* when choices is not an array, the raw body when it is not JSON
SseEvents(payload) ==
  IF ~payload.parses THEN <<Frame("data", <<"raw", payload>>)>>
  ELSE IF ~payload.array THEN << >>
  ELSE AllChoiceEvents(payload.choices, 1)

ErrEvent(kind, body, status) == Frame("data", <<"error", kind, body, status>>)

JsonBody(payload) == << Frame("json", <<"completion", payload>>) >>
JsonError(type, msg) == << Frame("json", <<"error", type, msg>>) >>

(* ------------------------------------------------------------------ *)
(* State                                                               *)
(* ------------------------------------------------------------------ *)
VARIABLES
  rq,          \* per request: the locals of proxyRequest and what the client saw
  inflight,    \* RequestDeduplicator.inflight: set of [key, owner]
  cache,       \* RequestDeduplicator.completed: set of entries, one per key
  sessions,    \* SessionStore: session id -> pinned [model, tier]
  now,         \* Date.now(), in clock steps of TickMs
  wide,        \* whether the upstream answers are drawn from WideAnswers
  aux          \* state of the components outside proxyRequest (registry, helpers)

vars == <<rq, inflight, cache, sessions, now, wide, aux>>

\* nothing but proxyRequest is running
NoAux == [kind |-> None]

NoRoute == [model |-> None, tier |-> None]
NoError == [status |-> 0, body |-> None]

\* proxyRequest has not been called for this slot
Idle ==
  [pc |-> "idle", recv |-> Body(None, FALSE, None, TRUE), sess |-> NoSession,
   key |-> hash(Body(None, FALSE, None, TRUE)), body |-> Body(None, FALSE, None, TRUE),
   modelId |-> "", routingDecision |-> NoRoute, isStreaming |-> FALSE,
   estimated |-> FALSE,
   modelsToTry |-> << >>, i |-> 0, attempts |-> << >>, lastError |-> NoError,
   upstream |-> NoUpstream, actualModelUsed |-> "",
   resp |-> NoResp, ended |-> FALSE,
   heartbeat |-> FALSE, hbTicks |-> 0, timer |-> FALSE, aborted |-> FALSE,
   late |-> FALSE, threw |-> FALSE,
   completed |-> FALSE, onClose |-> FALSE, closed |-> FALSE, gone |-> FALSE,
   marked |-> FALSE, waitOn |-> 0, servedBy |-> 0, usage |-> 0,
   logged |-> None, deducted |-> FALSE, pin |-> NoRoute, goneAt |-> 0,
   sufficiency |-> None,
   live |-> {}, recent |-> {}, abandoned |-> {}, before |-> {}]

Init ==
  /\ rq = [r \in Req |-> Idle]
  /\ inflight = {}
  /\ cache = {}
  /\ sessions = [s \in SessionIds |-> NoRoute]
  /\ now = 0
  /\ wide = FALSE
  /\ aux = NoAux

(* ------------------------------------------------------------------ *)
(* RequestDeduplicator                                                 *)
(* ------------------------------------------------------------------ *)
Fresh(e) == now * TickMs - e.completedAt < TTL_MS

\* getCached: the entry of the key, unless its TTL has passed
getCached(key) == {e \in cache : e.key = key /\ Fresh(e)}

getInflight(key) == {e \in inflight : e.key = key}

markInflight(key, r) == {e \in inflight : e.key # key} \cup {[key |-> key, owner |-> r]}

removeInflight(key) == {e \in inflight : e.key # key}

\* complete(): the result replaces the key's completed entry
cacheComplete(key, result, r) ==
  {e \in cache : e.key # key}
    \cup {[key |-> key, status |-> result.status, headers |-> result.headers,
           body |-> result.body, completedAt |-> now * TickMs, by |-> r]}

\* a replay that always answers 200
ReplayStatus200(q, result, by) ==
  [q EXCEPT !.pc = "done", !.ended = TRUE,
            !.resp = [status |-> 200, headers |-> result.headers,
                      body |-> result.body],
            !.servedBy = by]

\* res.writeHead(result.status, result.headers); res.end(result.body)
Replay(q, result, by) ==
  [q EXCEPT !.pc = "done", !.ended = TRUE,
            !.resp = [status |-> result.status, headers |-> result.headers,
                      body |-> result.body],
            !.servedBy = by]

\* complete(): the callers attached to the key's inflight entry are resolved
\* with the result, and the entry is deleted
resolveWaiters(f, key, result, r) ==
  LET owners == {e.owner : e \in getInflight(key)} IN
  [x \in Req |->
     IF f[x].pc = "waiting" /\ f[x].waitOn \in owners
     THEN Replay(f[x], result, r)
     ELSE f[x]]

(* ------------------------------------------------------------------ *)
(* proxyRequest, first part: parsing, routing, dedup check             *)
(* ------------------------------------------------------------------ *)
isAutoModel(m) == TrimLower(m) \in {AUTO_MODEL, AUTO_MODEL_SHORT}

\* the session pin an auto request finds (getSessionId, getSession)
existingSession(s) == IF s # NoSession THEN sessions[s] ELSE NoRoute

\* the routing block throws before route() returns; its catch only logs
routingThrows(b, s) ==
  isAutoModel(b.model) /\ existingSession(s) = NoRoute /\ b.prompt = Malformed

\* routingDecision of the request: set only when route() was called
Routing(b, s) ==
  IF isAutoModel(b.model) /\ existingSession(s) = NoRoute /\ ~routingThrows(b, s)
  THEN route(b.prompt) ELSE NoRoute

\* modelId after the smart-routing block
RoutedModel(b, s) ==
  LET normalizedModel == TrimLower(b.model)
      resolvedModel == resolveModelAlias(normalizedModel) IN
  IF b = NotJson THEN ""
  ELSE IF isAutoModel(b.model)
  THEN IF existingSession(s) # NoRoute THEN existingSession(s).model
       ELSE IF routingThrows(b, s) THEN b.model
       ELSE route(b.prompt).model
  ELSE IF resolvedModel # normalizedModel THEN resolvedModel ELSE b.model

bodyModified(b, s) ==
  /\ b # NotJson
  /\ \/ b.stream
     \/ isAutoModel(b.model)
     \/ resolveModelAlias(TrimLower(b.model)) # TrimLower(b.model)

\* the body after the smart-routing block
RoutedBody(b, s) ==
  IF bodyModified(b, s) /\ ~routingThrows(b, s) THEN Rewrite(b, RoutedModel(b, s)) ELSE b

\* the body RequestDeduplicator.hash is applied to
DedupInput(b, s) == RoutedBody(b, s)

\* sessionStore.setSession after a fresh routing decision
SessionsAfter(b, s) ==
  IF isAutoModel(b.model) /\ s # NoSession /\ sessions[s] = NoRoute
     /\ ~routingThrows(b, s)
  THEN [sessions EXCEPT ![s] = route(b.prompt)]
  ELSE sessions

needsBalanceCheck(modelId) ==
  modelId # "" /\ modelId # FREE_MODEL /\ estimateAmount(modelId) # None

\* a chain that is not cut to MAX_FALLBACK_ATTEMPTS
FallbackChainUncut(q) ==
  IF q.routingDecision # NoRoute
  THEN getFallbackChain(q.routingDecision.tier)
  ELSE IF q.modelId # "" THEN <<q.modelId>> ELSE << >>

\* modelsToTry
FallbackChain(q) ==
  IF q.routingDecision # NoRoute
  THEN LET full == getFallbackChain(q.routingDecision.tier) IN
       SubSeq(full, 1, IF Len(full) < MAX_FALLBACK_ATTEMPTS THEN Len(full)
                       ELSE MAX_FALLBACK_ATTEMPTS)
  ELSE IF q.modelId # "" THEN <<q.modelId>> ELSE << >>

\* res.write / res.writeHead
Write(resp, frames) == [resp EXCEPT !.body = @ \o frames]
WriteHead(resp, status, headers) == [resp EXCEPT !.status = status, !.headers = headers]

\* streaming preamble, 'close' listener, deadline timer and chain: the code
\* from the balance check to the first tryModelRequest
Preamble(q) ==
  LET q1 == IF q.isStreaming
            THEN [q EXCEPT !.resp = Write(WriteHead(@, 200, SseHeadersEarly), <<HEARTBEAT>>),
                           !.heartbeat = TRUE]
            ELSE q
      q2 == [q1 EXCEPT !.onClose = TRUE, !.timer = TRUE,
                       !.modelsToTry = FallbackChain(q1),
                       !.actualModelUsed = q1.modelId] IN
  [q2 EXCEPT !.pc = "attempt", !.i = 1]

\* deduplicator.complete(key, result) by request r, whose record is f[r]
Complete(f, r, result) ==
  /\ cache' = cacheComplete(f[r].key, result, r)
  /\ inflight' = removeInflight(f[r].key)
  /\ rq' = resolveWaiters(f, f[r].key, result, r)

Result(status, headers, body) == [status |-> status, headers |-> headers, body |-> body]

\* a loop exit that leaves the heartbeat interval running
AfterLoopHeartbeatOn(q) ==
  [q EXCEPT
     !.timer = FALSE,
     !.routingDecision =
        IF @ # NoRoute /\ q.actualModelUsed # @.model
        THEN [@ EXCEPT !.model = q.actualModelUsed] ELSE @]

\* a loop exit that keeps the routing decision of route()
AfterLoopStaleRouting(q) == [q EXCEPT !.timer = FALSE, !.heartbeat = FALSE]

\* right after the fallback loop: clearTimeout, clearInterval, and the
\* routing decision updated with the model actually used
AfterLoop(q) ==
  [q EXCEPT
     !.timer = FALSE, !.heartbeat = FALSE,
     !.routingDecision =
        IF @ # NoRoute /\ q.actualModelUsed # @.model
        THEN [@ EXCEPT !.model = q.actualModelUsed] ELSE @]

\* the code after the fallback loop up to the read of the upstream body:
\* timers cleared, routing decision updated, and the all-failed response
LeaveLoop(f, r) ==
  LET q == f[r]
      q1 == AfterLoop(q)
      errBody == IF q.lastError = NoError THEN "all models failed" ELSE q.lastError.body
      errStatus == IF q.lastError = NoError THEN 502 ELSE q.lastError.status
      errEvent == <<ErrEvent("provider_error", errBody, errStatus), DONE>>
  IN
  IF q.upstream = NoUpstream
  THEN IF q.resp.status # 0
       THEN Complete([f EXCEPT ![r] =
                        [q1 EXCEPT !.pc = "done", !.ended = TRUE,
                                   !.resp = Write(@, errEvent)]],
                     r, Result(200, SseHeadersCached, errEvent))
       ELSE Complete([f EXCEPT ![r] =
                        [q1 EXCEPT !.pc = "done", !.ended = TRUE,
                                   !.resp = Write(WriteHead(@, errStatus, JsonHeadersSent),
                                                  JsonError("provider_error", errBody))]],
                     r, Result(errStatus, JsonHeadersCached,
                               JsonError("provider_error", errBody)))
  ELSE /\ rq' = [f EXCEPT ![r] =
                   [q1 EXCEPT !.pc = "reading",
                              !.resp = IF q.isStreaming THEN @
                                       ELSE WriteHead(@, 200, responseHeaders)]]
       /\ UNCHANGED <<cache, inflight>>

\* the fallback loop starts, or is skipped when there is no model to try
EnterLoop(f, r) ==
  IF f[r].modelsToTry = << >>
  THEN LeaveLoop(f, r)
  ELSE rq' = f /\ UNCHANGED <<cache, inflight>>

\* a handler that ends a started stream after the error event, without [DONE]
ProxyErrorNoDone(q, msg) ==
  IF q.resp.status = 0
  THEN [q EXCEPT !.pc = "done", !.ended = TRUE, !.threw = TRUE,
                 !.resp = Write(WriteHead(@, 502, JsonHeadersSent),
                                JsonError("proxy_error", msg))]
  ELSE IF ~q.ended
       THEN [q EXCEPT !.pc = "done", !.ended = TRUE, !.threw = TRUE,
                      !.resp = Write(@, <<ErrEvent("proxy_error", msg, 0)>>)]
       ELSE [q EXCEPT !.pc = "done", !.threw = TRUE]

\* the handler of startProxy catches what proxyRequest throws
ProxyError(q, msg) ==
  IF q.resp.status = 0
  THEN [q EXCEPT !.pc = "done", !.ended = TRUE, !.threw = TRUE,
                 !.resp = Write(WriteHead(@, 502, JsonHeadersSent),
                                JsonError("proxy_error", msg))]
  ELSE IF ~q.ended
       THEN [q EXCEPT !.pc = "done", !.ended = TRUE, !.threw = TRUE,
                      !.resp = Write(@, <<ErrEvent("proxy_error", msg, 0), DONE>>)]
       ELSE [q EXCEPT !.pc = "done", !.threw = TRUE]

\* a dedup check that looks at the inflight map only
DedupLookupNoCache(key) ==
  IF getInflight(key) # {} THEN "inflight"
  ELSE "absent"

\* the dedup check: the completed cache first, then the inflight map
DedupLookup(key) ==
  IF getCached(key) # {} THEN "cached"
  ELSE IF getInflight(key) # {} THEN "inflight"
  ELSE "absent"

\* earlier requests with the same received body
Earlier(r, b) == {x \in Req : x < r /\ rq[x].pc # "idle" /\ rq[x].recv = b}

\* the body has been read: parsing, routing and the dedup check
Arrive(r, b, s) ==
  /\ rq[r].pc = "idle"
  /\ r > 1 => rq[r - 1].pc # "idle"
  /\ LET key == hash(DedupInput(b, s))
         q == [rq[r] EXCEPT
                 !.recv = b, !.sess = s, !.key = key, !.body = RoutedBody(b, s),
                 !.modelId = RoutedModel(b, s), !.routingDecision = Routing(b, s),
                 !.isStreaming = b.stream,
                 !.pin = IF isAutoModel(b.model) THEN existingSession(s) ELSE NoRoute,
                 !.before = {x \in Req : x < r /\ rq[x].pc = "done"},
                 !.live = {x \in Earlier(r, b) : rq[x].pc # "done"},
                 !.recent = {x \in Earlier(r, b) : \E e \in cache : e.by = x /\ Fresh(e)},
                 !.abandoned = {x \in Earlier(r, b) : rq[x].gone /\ rq[x].marked}]
     IN
     /\ sessions' = SessionsAfter(b, s)
     /\ IF DedupLookup(key) = "cached"
        THEN /\ rq' = [rq EXCEPT ![r] =
                         Replay(q, CHOOSE e \in getCached(key) : TRUE,
                                (CHOOSE e \in getCached(key) : TRUE).by)]
             /\ UNCHANGED <<inflight, cache>>
        ELSE IF DedupLookup(key) = "inflight"
        THEN /\ rq' = [rq EXCEPT ![r] =
                         [q EXCEPT !.pc = "waiting",
                                   !.waitOn = (CHOOSE e \in getInflight(key) : TRUE).owner]]
             /\ UNCHANGED <<inflight, cache>>
        ELSE IF needsBalanceCheck(q.modelId)
        THEN /\ inflight' = markInflight(key, r)
             /\ rq' = [rq EXCEPT ![r] =
                         [q EXCEPT !.marked = TRUE, !.pc = "balance", !.estimated = TRUE]]
             /\ UNCHANGED cache
        ELSE IF FallbackChain(q) # << >>
        THEN /\ inflight' = markInflight(key, r)
             /\ rq' = [rq EXCEPT ![r] = Preamble([q EXCEPT !.marked = TRUE])]
             /\ UNCHANGED cache
        ELSE \* no model to try: markInflight, an empty loop and complete() in one run
             LeaveLoop([rq EXCEPT ![r] = Preamble([q EXCEPT !.marked = TRUE])], r)
  /\ UNCHANGED <<now, wide, aux>>

(* ------------------------------------------------------------------ *)
(* proxyRequest, second part                                           *)
(* ------------------------------------------------------------------ *)
\* balanceMonitor.checkSufficient settles
BalanceResult(r, o) ==
  /\ rq[r].pc = "balance"
  /\ LET q == [rq[r] EXCEPT !.sufficiency = o] IN
     CASE o = "sufficient" ->
            EnterLoop([rq EXCEPT ![r] = Preamble(q)], r)
       [] o = "insufficient" /\ q.routingDecision # NoRoute ->
            EnterLoop([rq EXCEPT ![r] =
                         Preamble([q EXCEPT !.modelId = FREE_MODEL,
                                            !.body = [@ EXCEPT !.model = FREE_MODEL,
                                                               !.compact = TRUE]])], r)
       [] o = "insufficient" /\ q.routingDecision = NoRoute ->
            /\ inflight' = removeInflight(q.key)
            /\ rq' = [rq EXCEPT ![r] = ProxyError(q, "insufficient funds")]
            /\ UNCHANGED cache
       [] OTHER ->
            /\ rq' = [rq EXCEPT ![r] = ProxyError(q, "rpc error")]
            /\ UNCHANGED <<cache, inflight>>
  /\ UNCHANGED <<sessions, now, wide, aux>>

Answers == IF wide THEN WideAnswers ELSE NarrowAnswers

\* the bodies an upstream 200 answer may carry
Payloads == IF wide THEN WidePayloads ELSE NarrowPayloads

\* the body that comes with an answer: only that of a 200 answer is looked at
PayloadsOf(ans) ==
  IF ModelRequestResult(ans).success THEN Payloads ELSE {PlainPayload}

\* a loop that goes on after any failure
continueLoopAnyError(result, isLastAttempt) == ~isLastAttempt

\* "if (result.isProviderError && !isLastAttempt) continue"
continueLoop(result, isLastAttempt) == result.isProviderError /\ ~isLastAttempt

\* payFetch of the current attempt settles: one iteration of the fallback loop
AttemptResult(r, ans, payload) ==
  /\ rq[r].pc = "attempt"
  /\ IF rq[r].aborted THEN ans = AbortErr ELSE ans \in Answers
  /\ payload \in PayloadsOf(ans)
  /\ LET q == rq[r]
         result == ModelRequestResult(ans)
         tryModel == q.modelsToTry[q.i]
         isLastAttempt == q.i = Len(q.modelsToTry)
         q1 == [q EXCEPT !.attempts =
                  Append(@, [model |-> tryModel, ans |-> ans,
                             retryable |-> result.isProviderError,
                             afterAbort |-> q.late])]
     IN
     IF result.success
     THEN LeaveLoop([rq EXCEPT ![r] =
                       [q1 EXCEPT !.upstream = payload, !.actualModelUsed = tryModel]], r)
     ELSE LET q2 == [q1 EXCEPT !.lastError = [body |-> result.errorBody,
                                              status |-> result.errorStatus]] IN
          IF continueLoop(result, isLastAttempt)
          THEN /\ rq' = [rq EXCEPT ![r] = [q2 EXCEPT !.i = @ + 1, !.late = q.aborted]]
               /\ UNCHANGED <<cache, inflight>>
          ELSE LeaveLoop([rq EXCEPT ![r] = q2], r)
  /\ UNCHANGED <<sessions, now, wide, aux>>

\* the read of the upstream body settles: translation, caching, accounting
BodyRead(r, ok) ==
  /\ rq[r].pc = "reading"
  /\ LET q == rq[r]
         frames == IF q.isStreaming THEN SseEvents(q.upstream) \o <<DONE>>
                   ELSE JsonBody(q.upstream)
         q1 == [q EXCEPT !.pc = "done", !.ended = TRUE,
                         !.resp = Write(@, frames), !.completed = TRUE,
                         !.deducted = q.estimated,
                         !.usage = IF q.routingDecision # NoRoute THEN @ + 1 ELSE @,
                         !.logged = IF q.routingDecision # NoRoute
                                    THEN q.routingDecision.model ELSE @]
     IN
     IF ok
     THEN Complete([rq EXCEPT ![r] = q1], r,
                   IF q.isStreaming THEN Result(200, SseHeadersCached, frames)
                   ELSE Result(200, responseHeaders, frames))
     ELSE /\ inflight' = removeInflight(q.key)
          /\ rq' = [rq EXCEPT ![r] = ProxyError([q EXCEPT !.heartbeat = FALSE], "read error")]
          /\ UNCHANGED cache
  /\ UNCHANGED <<sessions, now, wide, aux>>

(* ------------------------------------------------------------------ *)
(* Timers and connection events                                        *)
(* ------------------------------------------------------------------ *)
\* setTimeout(() => controller.abort(), timeoutMs) fires
Timeout(r) ==
  /\ rq[r].timer
  /\ rq' = [rq EXCEPT ![r] = [@ EXCEPT !.timer = FALSE, !.aborted = TRUE]]
  /\ UNCHANGED <<inflight, cache, sessions, now, wide, aux>>

\* the heartbeat interval fires
Heartbeat(r) ==
  /\ rq[r].heartbeat
  /\ rq[r].hbTicks < MaxHb
  /\ ~rq[r].ended
  /\ rq' = [rq EXCEPT ![r] = [@ EXCEPT !.resp = Write(@, <<HEARTBEAT>>), !.hbTicks = @ + 1]]
  /\ UNCHANGED <<inflight, cache, sessions, now, wide, aux>>

\* the listener of res 'close', when it is registered
OnClose(q) == [q EXCEPT !.closed = TRUE, !.heartbeat = FALSE]

\* the number of upstream attempts the request has started so far
AttemptsStarted(q) == IF q.pc = "attempt" THEN q.i ELSE Len(q.attempts)

\* the client closes the connection before the response has ended
Disconnect(r) ==
  /\ rq[r].pc \in {"balance", "attempt", "reading", "waiting"}
  /\ ~rq[r].gone
  /\ IF rq[r].onClose
     THEN /\ rq' = [rq EXCEPT ![r] =
                      OnClose([@ EXCEPT !.gone = TRUE, !.goneAt = AttemptsStarted(rq[r])])]
          /\ inflight' = IF ~rq[r].completed THEN removeInflight(rq[r].key) ELSE inflight
     ELSE /\ rq' = [rq EXCEPT ![r] =
                      [@ EXCEPT !.gone = TRUE, !.goneAt = AttemptsStarted(rq[r])]]
          /\ UNCHANGED inflight
  /\ UNCHANGED <<cache, sessions, now, wide, aux>>

\* a 'close' that also deletes the key's completed entry
CloseAfterEndDropsEntry(r) ==
  /\ rq[r].pc = "done"
  /\ rq[r].onClose
  /\ ~rq[r].closed
  /\ ~rq[r].completed
  /\ rq' = [rq EXCEPT ![r] = OnClose(@)]
  /\ inflight' = removeInflight(rq[r].key)
  /\ cache' = {e \in cache : e.key # rq[r].key}
  /\ UNCHANGED <<sessions, now, wide, aux>>

\* 'close' of a response that has ended. With completed set the listener
\* finds the heartbeat cleared and changes nothing: only the other case is a step.
CloseAfterEnd(r) ==
  /\ rq[r].pc = "done"
  /\ rq[r].onClose
  /\ ~rq[r].closed
  /\ ~rq[r].completed
  /\ rq' = [rq EXCEPT ![r] = OnClose(@)]
  /\ inflight' = removeInflight(rq[r].key)
  /\ UNCHANGED <<cache, sessions, now, wide, aux>>

\* the clock advances. Date.now() is only ever compared with the completedAt
\* of a completed entry, so time is let pass while an entry can still expire.
Tick ==
  /\ now < MaxTicks
  /\ \E e \in cache : Fresh(e)
  /\ now' = now + 1
  /\ UNCHANGED <<rq, inflight, cache, sessions, wide, aux>>

Next ==
  \/ \E r \in Req, in \in Inputs : Arrive(r, in.body, in.sess)
  \/ \E r \in Req, o \in {"sufficient", "insufficient", "throws"} : BalanceResult(r, o)
  \/ \E r \in Req, ans \in WideAnswers \cup {AbortErr} : \E p \in PayloadsOf(ans) :
        AttemptResult(r, ans, p)
  \/ \E r \in Req, ok \in BOOLEAN : BodyRead(r, ok)
  \/ \E r \in Req : Timeout(r)
  \/ \E r \in Req : Heartbeat(r)
  \/ \E r \in Req : Disconnect(r)
  \/ \E r \in Req : CloseAfterEnd(r)
  \/ Tick

Spec == Init /\ [][Next]_vars

\* The same gateway when a session was pinned, by a request on a long
\* prompt, longer ago than the dedup TTL (a pin lasts an hour).
InitPinned ==
  /\ rq = [r \in Req |-> Idle]
  /\ inflight = {}
  /\ cache = {}
  /\ sessions = [s \in SessionIds |-> route("long")]
  /\ now = 0
  /\ wide = FALSE
  /\ aux = NoAux

SpecPinned == InitPinned /\ [][Next]_vars

\* One request alone, with every kind of upstream answer
InitLoop ==
  /\ rq = [r \in Req |-> Idle]
  /\ inflight = {}
  /\ cache = {}
  /\ sessions = [s \in SessionIds |-> NoRoute]
  /\ now = 0
  /\ wide = TRUE
  /\ aux = NoAux

NextLoop ==
  \/ \E in \in Inputs : Arrive(1, in.body, in.sess)
  \/ \E o \in {"sufficient", "insufficient", "throws"} : BalanceResult(1, o)
  \/ \E ans \in WideAnswers \cup {AbortErr} : \E p \in PayloadsOf(ans) :
        AttemptResult(1, ans, p)
  \/ \E ok \in BOOLEAN : BodyRead(1, ok)
  \/ Timeout(1)
  \/ Heartbeat(1)
  \/ Disconnect(1)
  \/ CloseAfterEnd(1)
  \/ Tick

SpecLoop == InitLoop /\ [][NextLoop]_vars

(* ------------------------------------------------------------------ *)
(* resolveModelAlias on its own                                        *)
(* ------------------------------------------------------------------ *)
\* the strings resolveModelAlias is applied to: aliases, model ids, unknown
\* names and names of Object.prototype members, plain, with the blockrun/
\* prefix, in upper case and with surrounding blanks
AliasInputs ==
  BaseNames
    \cup {"blockrun/" \o b : b \in AliasKeys \cup ObjectPrototypeKeys \cup {"foo"}}
    \cup {Upper(n) : n \in Lowered}
    \cup {" " \o n \o " " : n \in Lowered \cup {"blockrun/gpt", "foo"}}
    \cup {" " \o Upper(n) \o " " : n \in Lowered}

\* a result that has not been computed yet
Pending == "pending"

InitAlias ==
  /\ rq = [r \in Req |-> Idle]
  /\ inflight = {}
  /\ cache = {}
  /\ sessions = [s \in SessionIds |-> NoRoute]
  /\ now = 0
  /\ wide = FALSE
  /\ aux \in {[kind |-> "alias", x |-> x, once |-> Pending, twice |-> Pending] :
                x \in AliasInputs}

\* y = resolveModelAlias(x)
ResolveOnce ==
  /\ aux.kind = "alias" /\ aux.once = Pending
  /\ aux' = [aux EXCEPT !.once = resolveModelAlias(aux.x)]
  /\ UNCHANGED <<rq, inflight, cache, sessions, now, wide>>

\* resolveModelAlias(y)
ResolveTwice ==
  /\ aux.kind = "alias" /\ aux.once # Pending /\ aux.twice = Pending
  /\ aux' = [aux EXCEPT !.twice = resolveModelAlias(aux.once)]
  /\ UNCHANGED <<rq, inflight, cache, sessions, now, wide>>

NextAlias == ResolveOnce \/ ResolveTwice

SpecAlias == InitAlias /\ [][NextAlias]_vars

(* ------------------------------------------------------------------ *)
(* tryModelRequest: the body built for each attempt                    *)
(* ------------------------------------------------------------------ *)
MaxMsgs == 3

\* characters of tool ids: letters, digits, "_" and "-" stand for the class
\* [A-Za-z0-9_-]; "." and ":" are outside it
IdChars == {"a", "1", "_", "-"}

NoId == << >>

\* tool ids as clients send them
ToolIds == {<<"a", "_", "1">>, <<"a", ".", "1">>, <<"a", ":", "1">>}

PLACEHOLDER == "(continuing conversation)"

\* a chat message; id is tool_calls[0].id of an assistant message and
\* tool_call_id of a tool message
Msg(role, content, id) == [role |-> role, content |-> content, id |-> id]

Msgs ==
  {Msg(r, "text", NoId) : r \in {"system", "user", "assistant", "model"}}
    \cup {Msg("user", PLACEHOLDER, NoId)}
    \cup {Msg(r, "text", id) : r \in {"assistant", "tool"}, id \in ToolIds}

RECURSIVE SeqsUpTo(_, _)
SeqsUpTo(S, n) ==
  IF n = 0 THEN {<< >>}
  ELSE LET shorter == SeqsUpTo(S, n - 1) IN
       shorter \cup {Append(s, x) : s \in {t \in shorter : Len(t) = n - 1}, x \in S}

MessageLists == SeqsUpTo(Msgs, MaxMsgs)

\* modelId.startsWith("google/") || modelId.startsWith("gemini")
isGoogleModel(modelId) ==
  \E rest \in {"gemini-2.5-flash", "gemini-2.5-pro", "-pro"} :
    modelId = "google/" \o rest \/ modelId = "gemini" \o rest

\* index of the first message whose role is not "system", 0 if there is none
FirstNonSystem(messages) ==
  IF \E i \in 1..Len(messages) : messages[i].role # "system"
  THEN CHOOSE i \in 1..Len(messages) :
         /\ messages[i].role # "system"
         /\ \A j \in 1..(i - 1) : messages[j].role = "system"
  ELSE 0

normalizeMessagesForGoogle(messages) ==
  LET firstNonSystemIdx == FirstNonSystem(messages) IN
  IF messages = << >> \/ firstNonSystemIdx = 0 THEN messages
  ELSE IF messages[firstNonSystemIdx].role = "user" THEN messages
  ELSE IF messages[firstNonSystemIdx].role \in {"assistant", "model"}
  THEN SubSeq(messages, 1, firstNonSystemIdx - 1)
         \o <<Msg("user", PLACEHOLDER, NoId)>>
         \o SubSeq(messages, firstNonSystemIdx, Len(messages))
  ELSE messages

\* requestBody of tryModelRequest: the body of the request with the model
\* of the attempt and, for a Google model, normalised messages
RequestBody(messages, modelId) ==
  [model |-> modelId,
   messages |-> IF isGoogleModel(modelId) THEN normalizeMessagesForGoogle(messages)
                ELSE messages]

\* chains of models tried in turn on one request
ForwardChains ==
  { <<"google/gemini-2.5-flash", "deepseek/deepseek-chat">>,
    <<"anthropic/claude-sonnet-4", "gemini-pro", "google/gemini-2.5-pro">> }

InitForward ==
  /\ rq = [r \in Req |-> Idle]
  /\ inflight = {}
  /\ cache = {}
  /\ sessions = [s \in SessionIds |-> NoRoute]
  /\ now = 0
  /\ wide = FALSE
  /\ aux \in {[kind |-> "forward", messages |-> ms, chain |-> ch, forwarded |-> << >>] :
                ms \in MessageLists, ch \in ForwardChains}

\* one more attempt: tryModelRequest builds its body from the request's body
TryModelRequest ==
  /\ aux.kind = "forward"
  /\ Len(aux.forwarded) < Len(aux.chain)
  /\ aux' = [aux EXCEPT !.forwarded =
               Append(@, RequestBody(aux.messages, aux.chain[Len(aux.forwarded) + 1]))]
  /\ UNCHANGED <<rq, inflight, cache, sessions, now, wide>>

NextForward == TryModelRequest

SpecForward == InitForward /\ [][NextForward]_vars

(* ------------------------------------------------------------------ *)
(* ProviderRegistry                                                    *)
(* ------------------------------------------------------------------ *)
ProviderIds == {"blockrun", "openrouter"}

MaxInstances == 2

MaxCleanups == 1

\* provider objects: two objects may carry the same metadata.id
Providers == {[id |-> i, inst |-> n] : i \in ProviderIds, n \in 1..MaxInstances}

\* Map.set(key, value) on a map held as a set of entries
MapSet(map, key, value) ==
  {e \in map : e.key # key} \cup {[key |-> key, value |-> value]}

\* Map.delete(key)
MapDelete(map, key) == {e \in map : e.key # key}

\* Map.has(key)
MapHas(map, key) == \E e \in map : e.key = key

NoCall == [op |-> None, id |-> None, inst |-> 0, threw |-> FALSE]

\* the last call made on the registry and whether it threw
Call(op, id, inst, threw) == [op |-> op, id |-> id, inst |-> inst, threw |-> threw]

\* metadata.priority of a provider object
priority(p) ==
  IF p.inst = 1 THEN (IF p.id = "blockrun" THEN 100 ELSE 90) ELSE 50

\* the keys of a Map in insertion order: set(key) of a new key appends it
KeysSet(order, key) ==
  IF \E k \in 1..Len(order) : order[k] = key THEN order ELSE Append(order, key)

\* the keys of a Map in insertion order after delete(key)
KeysDelete(order, key) == SelectSeq(order, LAMBDA k : k # key)

\* Map.get(key) of a key the map has
MapGet(map, key) == (CHOOSE e \in map : e.key = key).value

\* getAll(): Array.from(this.providers.values())
getAll == [k \in 1..Len(aux.order) |-> MapGet(aux.providers, aux.order[k])]

\* get(id) finds a provider
get(id) == MapHas(aux.providers, id)

\* a comparator that puts the lowest priority first
compareAscending(a, b) == priority(a) - priority(b)

\* the comparator of getByPriority: (a, b) => b.metadata.priority - a.metadata.priority
compare(a, b) == priority(b) - priority(a)

\* the sorted array with x inserted: x goes before the elements that
\* compare greater than it and behind all others
RECURSIVE InsertSorted(_, _)
InsertSorted(arr, x) ==
  IF arr = << >> THEN <<x>>
  ELSE IF compare(arr[Len(arr)], x) > 0
  THEN Append(InsertSorted(SubSeq(arr, 1, Len(arr) - 1), x), arr[Len(arr)])
  ELSE Append(arr, x)

\* Array.prototype.sort with the comparator: a stable sort
RECURSIVE sort(_)
sort(arr) ==
  IF arr = << >> THEN << >>
  ELSE InsertSorted(sort(SubSeq(arr, 1, Len(arr) - 1)), arr[Len(arr)])

InitRegistry ==
  /\ rq = [r \in Req |-> Idle]
  /\ inflight = {}
  /\ cache = {}
  /\ sessions = [s \in SessionIds |-> NoRoute]
  /\ now = 0
  /\ wide = FALSE
  /\ aux = [kind |-> "registry", providers |-> {}, metadata |-> {},
            modelsCache |-> {}, fetching |-> {}, cleaning |-> 0,
            last |-> NoCall, before |-> {},
            order |-> << >>, orderBefore |-> << >>, sorted |-> << >>,
            invoked |-> {}, rejected |-> {}, late |-> {}]

\* a register that replaces the provider of an id that is taken
registerOverwrite(p) ==
  /\ aux.kind = "registry"
  /\ aux' = [aux EXCEPT !.providers = MapSet(@, p.id, p),
                        !.metadata = MapSet(@, p.id, p.id),
                        !.order = KeysSet(@, p.id),
                        !.late = IF aux.cleaning > 0 THEN @ \cup {p.id} ELSE @,
                        !.last = Call("register", p.id, p.inst, FALSE),
                        !.before = aux.providers, !.orderBefore = aux.order,
                        !.sorted = << >>]
  /\ UNCHANGED <<rq, inflight, cache, sessions, now, wide>>

register(p) ==
  /\ aux.kind = "registry"
  /\ IF MapHas(aux.providers, p.id)
     THEN aux' = [aux EXCEPT !.last = Call("register", p.id, p.inst, TRUE),
                             !.before = aux.providers, !.orderBefore = aux.order,
                             !.sorted = << >>]
     ELSE aux' = [aux EXCEPT !.providers = MapSet(@, p.id, p),
                             !.metadata = MapSet(@, p.id, p.id),
                             !.order = KeysSet(@, p.id),
                             !.late = IF aux.cleaning > 0 THEN @ \cup {p.id} ELSE @,
                             !.last = Call("register", p.id, p.inst, FALSE),
                             !.before = aux.providers, !.orderBefore = aux.order,
                             !.sorted = << >>]
  /\ UNCHANGED <<rq, inflight, cache, sessions, now, wide>>

unregister(id) ==
  /\ aux.kind = "registry"
  /\ aux' = [aux EXCEPT !.providers = MapDelete(@, id),
                        !.metadata = MapDelete(@, id),
                        !.modelsCache = @ \ {id},
                        !.order = KeysDelete(@, id),
                        !.late = @ \ {id},
                        !.last = Call("unregister", id, 0, FALSE),
                        !.before = aux.providers, !.orderBefore = aux.order,
                        !.sorted = << >>]
  /\ UNCHANGED <<rq, inflight, cache, sessions, now, wide>>

\* getModelsFromProvider up to "await provider.getModels()"
getModelsFromProvider(providerId) ==
  /\ aux.kind = "registry"
  /\ providerId \notin aux.fetching
  /\ IF providerId \in aux.modelsCache
     THEN aux' = [aux EXCEPT !.last = Call("getModels", providerId, 0, FALSE),
                             !.before = aux.providers, !.orderBefore = aux.order,
                             !.sorted = << >>]
     ELSE IF ~MapHas(aux.providers, providerId)
     THEN aux' = [aux EXCEPT !.last = Call("getModels", providerId, 0, TRUE),
                             !.before = aux.providers, !.orderBefore = aux.order,
                             !.sorted = << >>]
     ELSE aux' = [aux EXCEPT !.fetching = @ \cup {providerId},
                             !.last = Call("getModels", providerId, 0, FALSE),
                             !.before = aux.providers, !.orderBefore = aux.order,
                             !.sorted = << >>]
  /\ UNCHANGED <<rq, inflight, cache, sessions, now, wide>>

\* provider.getModels() settled: the models are cached
modelsFetched(providerId) ==
  /\ aux.kind = "registry"
  /\ providerId \in aux.fetching
  /\ aux' = [aux EXCEPT !.fetching = @ \ {providerId},
                        !.modelsCache = @ \cup {providerId},
                        !.last = Call("modelsFetched", providerId, 0, FALSE),
                        !.before = aux.providers, !.orderBefore = aux.order,
                        !.sorted = << >>]
  /\ UNCHANGED <<rq, inflight, cache, sessions, now, wide>>

\* getByPriority(): a sorted copy of getAll()
getByPriority ==
  /\ aux.kind = "registry"
  /\ aux' = [aux EXCEPT !.sorted = sort(getAll),
                        !.last = Call("getByPriority", None, 0, FALSE),
                        !.before = aux.providers, !.orderBefore = aux.order]
  /\ UNCHANGED <<rq, inflight, cache, sessions, now, wide>>

\* the provider objects in the providers map
Registered == {e.value : e \in aux.providers}

\* cleanupAll up to "await Promise.all(...)": clearCache(), and cleanup() is
\* invoked on every provider registered now; some of the cleanups will reject.
\* invoked, rejected and late describe the cleanupAll calls that are pending.
cleanupAll ==
  /\ aux.kind = "registry"
  /\ aux.cleaning < MaxCleanups
  /\ \E failing \in SUBSET Registered :
       aux' = [aux EXCEPT !.modelsCache = {}, !.cleaning = @ + 1,
                          !.invoked = (IF aux.cleaning = 0 THEN {} ELSE @) \cup Registered,
                          !.rejected = (IF aux.cleaning = 0 THEN {} ELSE @) \cup failing,
                          !.late = IF aux.cleaning = 0 THEN {} ELSE @,
                          !.last = Call("cleanupAll", None, 0, FALSE),
                          !.before = aux.providers, !.orderBefore = aux.order,
                          !.sorted = << >>]
  /\ UNCHANGED <<rq, inflight, cache, sessions, now, wide>>

\* a cleanupAll whose clear() leaves the providers whose cleanup() rejected
cleanedUpKeepsRejected ==
  /\ aux.kind = "registry"
  /\ aux.cleaning > 0
  /\ aux' = [aux EXCEPT !.providers = {e \in @ : e.value \in aux.rejected},
                        !.metadata = {e \in @ : \E x \in aux.rejected : x.id = e.key},
                        !.order = SelectSeq(@, LAMBDA k : \E x \in aux.rejected : x.id = k),
                        !.cleaning = @ - 1,
                        !.last = Call("cleanedUp", None, 0, FALSE),
                        !.before = aux.providers, !.orderBefore = aux.order,
                        !.sorted = << >>]
  /\ UNCHANGED <<rq, inflight, cache, sessions, now, wide>>

\* the cleanups settled, rejected or not: providers.clear(), metadata.clear()
cleanedUp ==
  /\ aux.kind = "registry"
  /\ aux.cleaning > 0
  /\ aux' = [aux EXCEPT !.providers = {}, !.metadata = {}, !.order = << >>,
                        !.cleaning = @ - 1,
                        !.last = Call("cleanedUp", None, 0, FALSE),
                        !.before = aux.providers, !.orderBefore = aux.order,
                        !.sorted = << >>]
  /\ UNCHANGED <<rq, inflight, cache, sessions, now, wide>>

NextRegistry ==
  \/ \E p \in Providers : register(p)
  \/ \E id \in ProviderIds : unregister(id)
  \/ \E id \in ProviderIds : getModelsFromProvider(id)
  \/ \E id \in ProviderIds : modelsFetched(id)
  \/ getByPriority
  \/ cleanupAll
  \/ cleanedUp

SpecRegistry == InitRegistry /\ [][NextRegistry]_vars

(* ------------------------------------------------------------------ *)
(* Properties of request deduplication                                 *)
(* ------------------------------------------------------------------ *)
Arrived == {r \in Req : rq[r].pc # "idle"}

\* the request was answered from the dedup store
Served(r) == rq[r].pc = "done" /\ rq[r].servedBy # 0

\* the request runs or ran the pipeline behind the dedup check itself
OwnPipeline(r) == rq[r].marked

\* C1: a request whose body is byte-identical to that of an earlier request
\* still in flight, or completed within the TTL, whose caller has not
\* disconnected, makes no upstream call of its own.
C1_OneUpstreamCall ==
  \A r2 \in Arrived : \A r1 \in rq[r2].live \cup rq[r2].recent :
    ~rq[r1].gone => (~OwnPipeline(r2) /\ rq[r2].attempts = << >>)

HeaderName(n) == IF n = "Content-Type" THEN "content-type" ELSE n
Canonical(headers) == {<<HeaderName(h[1]), h[2]>> : h \in headers}
NoHeartbeat(body) == SelectSeq(body, LAMBDA f : f # HEARTBEAT)

C3_KeyOfReceivedBody ==
  /\ \A r \in Arrived : rq[r].key = hash(rq[r].recv)
  /\ \A r1, r2 \in Arrived : rq[r1].key = rq[r2].key => rq[r1].recv = rq[r2].recv

\* C4: once the client of a primary request has disconnected before the
\* upstream completed, the request holds no inflight entry, and a later
\* request with the same body neither waits on it nor is replayed its result.
C4_DisconnectFreesKey ==
  /\ \A r \in Req :
       (rq[r].marked /\ rq[r].gone) => \A e \in inflight : e.owner # r
  /\ \A r2 \in Arrived : \A r1 \in rq[r2].abandoned :
       rq[r2].waitOn # r1 /\ rq[r2].servedBy # r1

\* C5: when proxyRequest has returned or thrown for a request that marked a
\* key inflight, the request holds no inflight entry any more.
C5_InflightLeaves ==
  \A r \in Req :
    (rq[r].marked /\ rq[r].pc = "done") => \A e \in inflight : e.owner # r

\* C6: no key has an inflight entry and an unexpired completed entry at once.
\* An entry is unexpired when complete() records it, so the inflight entry of
\* its key is gone then.
C6_InflightXorCompleted == \A e \in inflight : getCached(e.key) = {}

\* a primary's client went away, a second request marked the same key, and
\* the first one completed: the key has a fresh completed entry and the
\* second request is running
C6_Witness ==
  \E r1, r2 \in Req :
    /\ r1 # r2
    /\ rq[r1].key = rq[r2].key
    /\ rq[r1].gone /\ rq[r1].marked /\ rq[r1].pc = "done"
    /\ rq[r2].marked /\ rq[r2].pc \in {"balance", "attempt", "reading"}
    /\ getCached(rq[r1].key) # {}

(* ------------------------------------------------------------------ *)
(* Properties of the fallback loop                                     *)
(* ------------------------------------------------------------------ *)
Succeeded(a) == a.ans.kind = "http" /\ a.ans.status = 200

\* the fallback loop of the request is over
LoopLeft(q) == q.pc \in {"reading", "done"} /\ q.onClose

\* C7: every request makes at most 3 upstream attempts, whatever the length
\* of the tier's fallback list and whatever the upstream answers.
C7_AtMostThreeAttempts == \A r \in Req : Len(rq[r].attempts) <= 3

\* a request routed to a tier with more than 3 models has tried 3 of them,
\* each failing with a retryable error, and is over
C7_Witness ==
  \E r \in Req :
    /\ rq[r].routingDecision # NoRoute
    /\ Len(getFallbackChain(rq[r].routingDecision.tier)) > 3
    /\ rq[r].pc = "done"
    /\ Len(rq[r].attempts) = 3
    /\ \A k \in 1..3 : rq[r].attempts[k].retryable

\* C8: the models are attempted in chain order, one at a time; a failed
\* attempt is followed by another one exactly when it was classified
\* retryable and was not the last model of the chain; nothing follows a success.
C8_ChainOrder ==
  \A r \in Req :
    LET q == rq[r]
        n == Len(q.attempts) IN
    /\ n <= Len(q.modelsToTry)
    /\ \A k \in 1..n : q.attempts[k].model = q.modelsToTry[k]
    /\ \A k \in 1..(n - 1) :
         /\ ~Succeeded(q.attempts[k])
         /\ q.attempts[k].retryable
    /\ q.pc = "attempt" => q.i = n + 1
    /\ (LoopLeft(q) /\ n > 0) =>
         \/ Succeeded(q.attempts[n])
         \/ ~q.attempts[n].retryable
         \/ n = Len(q.modelsToTry)

\* a chain of three models was left after the second one failed with an
\* error that is not retryable
C8_Witness ==
  \E r \in Req :
    /\ LoopLeft(rq[r])
    /\ Len(rq[r].modelsToTry) = 3
    /\ Len(rq[r].attempts) = 2
    /\ rq[r].attempts[1].retryable
    /\ ~Succeeded(rq[r].attempts[2])
    /\ ~rq[r].attempts[2].retryable

\* C9: an attempt that ended in a network error, a 5xx status, status 429 or
\* a body matching a provider-error pattern is classified retryable; any
\* other 4xx answer is classified non-retryable.
C9_RetryableClassification ==
  \A r \in Req : \A k \in 1..Len(rq[r].attempts) :
    LET a == rq[r].attempts[k] IN
    ~Succeeded(a) =>
      /\ (\/ a.ans.kind # "http"
          \/ a.ans.status >= 500
          \/ a.ans.status = 429
          \/ a.ans.match) => a.retryable
      /\ (/\ a.ans.kind = "http"
          /\ a.ans.status \in 400..499
          /\ a.ans.status # 429
          /\ ~a.ans.match) => ~a.retryable

\* C10: once the deadline has expired during the fallback loop, no further
\* model of the chain is attempted and a non-streaming client gets status 502.
C10_DeadlineIsTerminal ==
  \A r \in Req :
    rq[r].aborted =>
      /\ \A k \in 1..Len(rq[r].attempts) : ~rq[r].attempts[k].afterAbort
      /\ (rq[r].pc = "done" /\ ~rq[r].isStreaming) => rq[r].resp.status = 502

(* ------------------------------------------------------------------ *)
(* Properties of the deadline, the heartbeat and the disconnect        *)
(* ------------------------------------------------------------------ *)
\* C11: from the first upstream attempt until the response is ended, through
\* every fallback attempt and the read of the upstream body, the deadline
\* timer of the request is armed unless it has already expired.
C11_DeadlineInForce ==
  \A r \in Req :
    (rq[r].pc \in {"attempt", "reading"} /\ ~rq[r].aborted) => rq[r].timer

HasData(body) == \E k \in 1..Len(body) : body[k].t = "data"

HeartbeatFirst(body) ==
  \A k \in 1..Len(body) :
    body[k].t = "data" => \E j \in 1..(k - 1) : body[j] = HEARTBEAT

\* C12: a client that asked for a stream and whose request called the
\* upstream itself or waited on an inflight duplicate has seen a heartbeat
\* frame before the first data frame it gets.
C12_HeartbeatBeforeData ==
  \A r \in Req :
    (rq[r].isStreaming /\ (rq[r].marked \/ rq[r].waitOn # 0)) =>
      HeartbeatFirst(rq[r].resp.body)

\* C13: no heartbeat frame follows a data frame on a connection, and the
\* heartbeat interval is no longer running once a data frame (payload or
\* error) has been written.
C13_NoHeartbeatAfterData ==
  \A r \in Req :
    LET body == rq[r].resp.body IN
    /\ \A k \in 1..Len(body) : \A j \in 1..(k - 1) :
         body[j].t = "data" => body[k] # HEARTBEAT
    /\ rq[r].heartbeat => ~HasData(body)

\* a stream got heartbeats from the interval while the upstream was awaited
\* and was then ended with data frames
C13_Witness ==
  \E r \in Req :
    /\ rq[r].isStreaming /\ rq[r].marked
    /\ rq[r].hbTicks > 0
    /\ rq[r].ended
    /\ HasData(rq[r].resp.body)

\* C14: once the client of a request has disconnected, the attempt in
\* progress is aborted, no attempt beyond those already started is made, and
\* the heartbeat interval is not running.
C14_DisconnectStopsRequest ==
  \A r \in Req :
    rq[r].gone =>
      /\ rq[r].pc = "attempt" => rq[r].aborted
      /\ AttemptsStarted(rq[r]) <= rq[r].goneAt
      /\ ~rq[r].heartbeat

\* C15: a request whose client disconnected before completion has recorded
\* no completed dedup entry, deducted nothing and logged no usage.
C15_DisconnectNoAccounting ==
  \A r \in Req :
    (rq[r].gone /\ rq[r].marked) =>
      /\ \A e \in cache : e.by # r
      /\ ~rq[r].deducted
      /\ rq[r].usage = 0

(* ------------------------------------------------------------------ *)
(* Properties of routing, sessions and the stream's end                *)
(* ------------------------------------------------------------------ *)
\* C16: when a request has logged a usage event, the model written into the
\* upstream request that succeeded is the model of that event's routing
\* decision, also after a fallback.
C16_LoggedModelIsForwarded ==
  \A r \in Req :
    rq[r].logged # None =>
      LET n == Len(rq[r].attempts) IN
      /\ n > 0
      /\ Succeeded(rq[r].attempts[n])
      /\ rq[r].attempts[n].model = rq[r].logged

\* a usage event was logged for a request that a fallback model served
C16_Witness ==
  \E r \in Req :
    /\ rq[r].logged # None
    /\ Len(rq[r].attempts) > 1
    /\ rq[r].logged # rq[r].modelsToTry[1]

\* C17: no upstream attempt carries the model id of the auto meta-model.
C17_AutoNeverForwarded ==
  \A r \in Req : \A k \in 1..Len(rq[r].attempts) :
    ~isAutoModel(rq[r].attempts[k].model)

\* C18: when an auto request with a session id logged its usage and a later
\* auto request arrives with the same session id, the first model forwarded
\* for the later request is the model of the earlier request's final routing
\* decision.
C18_SessionKeepsModel ==
  \A r2 \in Req : \A r1 \in rq[r2].before :
    (/\ isAutoModel(rq[r1].recv.model) /\ isAutoModel(rq[r2].recv.model)
     /\ rq[r1].sess # NoSession /\ rq[r1].sess = rq[r2].sess
     /\ rq[r1].logged # None
     /\ Len(rq[r2].attempts) > 0) =>
      rq[r2].attempts[1].model = rq[r1].logged

\* C19: an auto request that found a session pin tries the pinned model
\* first and the fallback models of the pinned tier after it.
C19_PinnedChain ==
  \A r \in Req :
    (rq[r].pin # NoRoute /\ rq[r].onClose) =>
      LET chain == rq[r].modelsToTry IN
      /\ Len(chain) > 1
      /\ chain[1] = rq[r].pin.model
      /\ \A k \in 2..Len(chain) : chain[k] = TierConfig[rq[r].pin.tier].fallback[k - 1]

IsEventStream(resp) == <<"content-type", "text/event-stream">> \in resp.headers
IsErrorFrame(f) == f.t = "data" /\ f.v[1] = "error"

\* C20: an event stream that has been ended has [DONE] as its last frame and
\* nowhere else, and an error frame only right before that [DONE].
C20_StreamEndsWithDone ==
  \A r \in Req :
    (rq[r].ended /\ IsEventStream(rq[r].resp)) =>
      LET body == rq[r].resp.body
          n == Len(body) IN
      /\ n > 0
      /\ body[n] = DONE
      /\ \A k \in 1..(n - 1) : body[k] # DONE
      /\ \A k \in 1..n : IsErrorFrame(body[k]) => k = n - 1

\* a stream whose upstream body could not be read was ended by the handler
\* of startProxy with an error frame and [DONE]
C20_Witness ==
  \E r \in Req :
    /\ rq[r].isStreaming /\ rq[r].threw /\ rq[r].ended
    /\ Len(rq[r].resp.body) > 1
    /\ IsErrorFrame(rq[r].resp.body[Len(rq[r].resp.body) - 1])
    /\ rq[r].resp.body[Len(rq[r].resp.body)] = DONE

(* ------------------------------------------------------------------ *)
(* Properties of terminal failures and accounting                      *)
(* ------------------------------------------------------------------ *)
\* the fallback loop ended without a successful attempt and the all-failed
\* response was written
AllFailed(q) ==
  /\ q.pc = "done" /\ q.marked /\ ~q.threw
  /\ q.attempts # << >> /\ q.upstream = NoUpstream

\* C21: when all attempts of a request failed, its key has a completed dedup
\* entry, which is the request's failure response (status and body) unless
\* another request completed on the key since, also after the response was
\* closed; a later identical request (same body, same session header) that
\* arrives while the entry is fresh is answered with that failure and makes
\* no upstream call.
C21_FailureIsCached ==
  /\ \A r \in Req :
       AllFailed(rq[r]) =>
         /\ \E e \in cache : e.key = rq[r].key
         /\ \A e \in cache :
              (e.key = rq[r].key /\ e.by = r) =>
                /\ e.status = rq[r].resp.status
                /\ e.body = NoHeartbeat(rq[r].resp.body)
         /\ (\A x \in Req \ {r} : rq[x].marked => rq[x].key # rq[r].key) =>
              \E e \in cache : e.key = rq[r].key /\ e.by = r
  /\ \A r2 \in Arrived : \A r1 \in rq[r2].recent :
       (AllFailed(rq[r1]) /\ rq[r1].sess = rq[r2].sess) =>
         /\ ~OwnPipeline(r2) /\ rq[r2].attempts = << >>
         /\ Served(r2) /\ rq[r2].servedBy = r1
         /\ rq[r2].resp.status = rq[r1].resp.status
         /\ rq[r2].resp.body = NoHeartbeat(rq[r1].resp.body)

\* a request failed on every model of its chain, its response was closed,
\* and an identical request was then answered with the cached failure
C21_Witness ==
  \E r1, r2 \in Req :
    /\ r1 # r2
    /\ AllFailed(rq[r1]) /\ rq[r1].closed
    /\ Len(rq[r1].attempts) > 1
    /\ r1 \in rq[r2].recent /\ rq[r1].sess = rq[r2].sess
    /\ rq[r2].servedBy = r1 /\ rq[r2].attempts = << >>

\* C23: a request that was fully completed by an upstream response has
\* emitted exactly one usage event, whether its model was routed, pinned by a
\* session or named by the client; a request that ended otherwise has
\* emitted none.
C23_OneUsageEvent ==
  \A r \in Req :
    rq[r].pc = "done" =>
      IF rq[r].completed THEN rq[r].usage = 1 ELSE rq[r].usage = 0

\* C24: a request whose body is not valid JSON is answered with status 400,
\* without an upstream call, and no dedup entry is recorded for it.
C24_BadJsonIs400 ==
  \A r \in Req :
    (rq[r].pc = "done" /\ rq[r].recv = NotJson) =>
      /\ rq[r].resp.status = 400
      /\ rq[r].attempts = << >>
      /\ \A e \in cache : e.by # r
      /\ \A e \in inflight : e.owner # r

\* the balance check found the wallet empty or insufficient for a model the
\* client named itself
Vetoed(q) == q.sufficiency = "insufficient" /\ q.routingDecision = NoRoute

\* C25: a request for an explicitly named paid model that the balance check
\* vetoed ends with status 402, has made no upstream attempt, has not been
\* moved to the free model, and its key has no inflight entry left.
C25_BalanceVetoIs402 ==
  \A r \in Req :
    Vetoed(rq[r]) =>
      /\ rq[r].pc = "done" /\ rq[r].ended
      /\ rq[r].resp.status = 402
      /\ rq[r].attempts = << >>
      /\ rq[r].modelId # FREE_MODEL
      /\ getInflight(rq[r].key) = {}

(* ------------------------------------------------------------------ *)
(* Properties of the response translation                              *)
(* ------------------------------------------------------------------ *)
\* a streaming request that an upstream response completed
StreamedOk(q) == q.pc = "done" /\ q.completed /\ q.isStreaming

\* the upstream body is JSON with an array of choices
WellFormed(p) == p.parses /\ p.array

ChoiceKinds == {"role", "content", "tool_calls", "finish"}

\* positions in body of the events of the given kind for choice k
EventsOf(body, kind, k) ==
  {j \in 1..Len(body) :
     body[j].t = "data" /\ body[j].v[1] = kind /\ body[j].v[2] = k}

\* positions in body of all the events of choice k
ChoicePos(body, k) ==
  {j \in 1..Len(body) :
     body[j].t = "data" /\ body[j].v[1] \in ChoiceKinds /\ body[j].v[2] = k}

\* what the client of request r got, without the heartbeat comments, is:
\* for each choice in turn one role event, then the content event (always,
\* or only when content is left after stripping), then the tool_calls event
\* when the choice has tool calls, then one finish event; then [DONE]
StreamShape(r, alwaysContent) ==
  LET d == NoHeartbeat(rq[r].resp.body)
      choices == rq[r].upstream.choices
      n == Len(choices) IN
  /\ Len(d) > 0 /\ d[Len(d)] = DONE
  /\ \A j \in 1..(Len(d) - 1) : \E k \in 1..n : j \in ChoicePos(d, k)
  /\ \A k \in 1..n :
       LET content == stripThinkingTokens(choices[k].content) IN
       /\ Cardinality(EventsOf(d, "role", k)) = 1
       /\ Cardinality(EventsOf(d, "content", k)) =
            IF alwaysContent \/ content # << >> THEN 1 ELSE 0
       /\ Cardinality(EventsOf(d, "tool_calls", k)) =
            IF choices[k].tools THEN 1 ELSE 0
       /\ Cardinality(EventsOf(d, "finish", k)) = 1
       /\ \A a \in EventsOf(d, "role", k) : \A z \in EventsOf(d, "finish", k) :
            /\ a < z
            /\ \A c \in EventsOf(d, "content", k) : a < c /\ c < z
            /\ \A t \in EventsOf(d, "tool_calls", k) : a < t /\ t < z
            /\ \A c \in EventsOf(d, "content", k) :
                 \A t \in EventsOf(d, "tool_calls", k) : c < t
            /\ \A j \in a..z : j \in ChoicePos(d, k)
  /\ \A k1, k2 \in 1..n :
       k1 < k2 => \A i \in ChoicePos(d, k1) : \A j \in ChoicePos(d, k2) : i < j

HasMarker(content) == \E i \in 1..Len(content) : content[i] \in Markers

\* the assistant contents in what a client was sent: the content events of a
\* stream, and the choices of a body that was passed on as it came
DeliveredContents(body) ==
  {body[j].v[3] : j \in {i \in 1..Len(body) :
                           body[i].t = "data" /\ body[i].v[1] = "content"}}
    \cup UNION {{body[j].v[2].choices[k].content :
                   k \in 1..Len(body[j].v[2].choices)} :
                j \in {i \in 1..Len(body) :
                         \/ body[i].t = "json" /\ body[i].v[1] = "completion"
                         \/ body[i].t = "data" /\ body[i].v[1] = "raw"}}

\* C29: no assistant content delivered to a client, streaming or not,
\* contains a thinking marker, and the prompt of the body forwarded upstream
\* is the one the client sent.
C29_NoThinkingMarkers ==
  \A r \in Req :
    /\ (rq[r].pc = "done" /\ rq[r].completed) =>
         \A c \in DeliveredContents(rq[r].resp.body) : ~HasMarker(c)
    /\ rq[r].pc # "idle" => rq[r].body.prompt = rq[r].recv.prompt

(* ------------------------------------------------------------------ *)
(* Properties of the helpers                                           *)
(* ------------------------------------------------------------------ *)
\* C27: resolveModelAlias(resolveModelAlias(x)) = resolveModelAlias(x) for
\* every string x, also with surrounding blanks, upper case or the
\* blockrun/ prefix.
C27_AliasIdempotent ==
  (aux.kind = "alias" /\ aux.twice # Pending) => aux.twice = aux.once

ValidId(id) == \A i \in 1..Len(id) : id[i] \in IdChars

\* C26: every tool id of a forwarded body is made of characters of
\* [A-Za-z0-9_-] only, and a tool message whose tool_call_id equalled the id
\* of an assistant's tool call in the request still equals it in the
\* forwarded body.
C26_ToolIdsSanitized ==
  aux.kind = "forward" =>
    \A k \in 1..Len(aux.forwarded) :
      LET out == aux.forwarded[k].messages IN
      /\ \A i \in 1..Len(out) : ValidId(out[i].id)
      /\ \A i, j \in 1..Len(aux.messages) :
           (/\ aux.messages[i].role = "assistant" /\ aux.messages[j].role = "tool"
            /\ aux.messages[i].id # NoId
            /\ aux.messages[i].id = aux.messages[j].id /\ i < j)
             => \E i2, j2 \in 1..Len(out) :
                  /\ out[i2].role = "assistant" /\ out[j2].role = "tool"
                  /\ out[i2].id # NoId /\ out[i2].id = out[j2].id

\* C28: in a body forwarded to a Google model the first message that is
\* not a system message, if there is one, has role user; at most one
\* placeholder message is inserted into any forwarded body, whichever
\* attempt it belongs to; the messages forwarded to other models are those
\* of the request.
C28_GoogleStartsWithUser ==
  aux.kind = "forward" =>
    \A k \in 1..Len(aux.forwarded) :
      LET out == aux.forwarded[k].messages
          placeholders(ms) ==
            Cardinality({i \in 1..Len(ms) : ms[i] = Msg("user", PLACEHOLDER, NoId)}) IN
      /\ (isGoogleModel(aux.chain[k]) /\ FirstNonSystem(aux.messages) # 0) =>
            out[FirstNonSystem(out)].role = "user"
      /\ placeholders(out) <= placeholders(aux.messages) + 1
      /\ Len(out) <= Len(aux.messages) + 1
      /\ ~isGoogleModel(aux.chain[k]) => out = aux.messages

\* C30: no two registered providers have the same id, whatever calls were
\* made; and the last call, when it was a register of a provider whose id was
\* registered already, threw and left providers and metadata as they were,
\* while a register of a free id did not throw and registered the provider.
C30_UniqueProviderIds ==
  aux.kind = "registry" =>
    /\ \A e1, e2 \in aux.providers : e1.value.id = e2.value.id => e1 = e2
    /\ \A e \in aux.providers : e.key = e.value.id
    /\ {e.key : e \in aux.metadata} = {e.key : e \in aux.providers}
    /\ aux.last.op = "register" =>
         IF MapHas(aux.before, aux.last.id)
         THEN aux.last.threw /\ aux.providers = aux.before
         ELSE /\ ~aux.last.threw
              /\ aux.providers = aux.before
                   \cup {[key |-> aux.last.id,
                          value |-> [id |-> aux.last.id, inst |-> aux.last.inst]]}

\* a second provider object with a registered id was refused while a
\* cleanupAll was waiting for the providers' cleanup
C30_Witness ==
  /\ aux.kind = "registry"
  /\ aux.last.op = "register" /\ aux.last.threw
  /\ aux.cleaning > 0
  /\ \E e \in aux.providers : e.key = aux.last.id /\ e.value.inst # aux.last.inst
  /\ Cardinality(aux.providers) = 2

(* ------------------------------------------------------------------ *)
(* Properties of the balance fallback and of the answers               *)
(* ------------------------------------------------------------------ *)
\* C36: when the balance check found the wallet empty or insufficient for an
\* auto-routed request, every upstream attempt of the request carries the
\* free model.
C36_FreeModelOnly ==
  \A r \in Req :
    (rq[r].sufficiency = "insufficient" /\ rq[r].routingDecision # NoRoute) =>
      \A k \in 1..Len(rq[r].attempts) : rq[r].attempts[k].model = FREE_MODEL

\* the body holds a plain JSON completion
HasJsonCompletion(body) ==
  \E k \in 1..Len(body) : body[k].t = "json" /\ body[k].v[1] = "completion"

\* the body holds SSE frames
HasSseFrames(body) == \E k \in 1..Len(body) : body[k].t \in {"data", "comment"}

\* C38: a client that did not ask for streaming gets no event stream, and
\* a client that asked for streaming gets no plain JSON completion, also when
\* it is answered from the dedup entry of another request.
C38_FramingAsRequested ==
  \A r \in Req :
    rq[r].pc = "done" =>
      IF rq[r].recv.stream
      THEN ~HasJsonCompletion(rq[r].resp.body)
      ELSE ~IsEventStream(rq[r].resp) /\ ~HasSseFrames(rq[r].resp.body)

(* ------------------------------------------------------------------ *)
(* Every accepted request is answered                                  *)
(* ------------------------------------------------------------------ *)
\* the request whose inflight entry q awaits has finished its handling
PrimaryFinished(q) == q.pc = "waiting" /\ rq[q.waitOn].pc = "done"

\* C37: every accepted request eventually has its response ended; for a
\* caller attached to an inflight duplicate this requires that it is never
\* left waiting once the primary's handling is over, since complete() of the
\* primary is the only step that answers it
C37_WaitersAnswered ==
  \A r \in Req : ~PrimaryFinished(rq[r])

(* ------------------------------------------------------------------ *)
(* fetchWithRetry                                                      *)
(* ------------------------------------------------------------------ *)
MaxRetriesBound == 2

DEFAULT_RETRY_CONFIG == [maxRetries |-> 2, retryableCodes |-> {429, 502, 503, 504}]

\* cfg = {...DEFAULT_RETRY_CONFIG, ...config} for the configs a caller passes
RetryConfigs ==
  {[maxRetries |-> m, retryableCodes |-> c] :
     m \in 0..MaxRetriesBound, c \in {DEFAULT_RETRY_CONFIG.retryableCodes, {503}}}

\* what one call of fetchFn settles with: a Response or a rejection
Response(status) == [threw |-> FALSE, status |-> status, error |-> None]
Thrown(error) == [threw |-> TRUE, status |-> 0, error |-> error]
NetworkErrors == {"ECONNRESET"}
ThrownErrors == NetworkErrors \cup {"AbortError"}
FetchOutcomes == {Response(st) : st \in {200, 404, 429, 503}} \cup {Thrown(e) : e \in ThrownErrors}

\* the object the n-th call produced
Made(n, o) == [n |-> n, o |-> o]
Undefined == Made(0, Thrown(None))
MaxRetriesExceeded == Made(0, Thrown("Max retries exceeded"))

InitRetry ==
  /\ rq = [r \in Req |-> Idle]
  /\ inflight = {}
  /\ cache = {}
  /\ sessions = [s \in SessionIds |-> NoRoute]
  /\ now = 0
  /\ wide = FALSE
  /\ \E cfg \in RetryConfigs :
       aux = [kind |-> "retry", cfg |-> cfg, attempt |-> 0, calls |-> << >>,
              lastError |-> Undefined, lastResponse |-> Undefined,
              pc |-> "loop", result |-> Undefined]

\* a loop that goes on after every error status
goesOnAnyErrorStatus(cfg, o) == o.threw \/ o.status >= 400

\* the iteration does not return: the status is in retryableCodes, or fetchFn threw
goesOn(cfg, o) == o.threw \/ o.status \in cfg.retryableCodes

\* after the loop: lastResponse if there is one, else lastError
exhausted(lastResponse, lastError) ==
  IF lastResponse # Undefined THEN [pc |-> "returned", result |-> lastResponse]
  ELSE IF lastError # Undefined THEN [pc |-> "threw", result |-> lastError]
  ELSE [pc |-> "threw", result |-> MaxRetriesExceeded]

\* one iteration of the loop, from the call of fetchFn to the end of the
\* sleep, and the statements after the loop when it was the last one
fetchFnSettles(o) ==
  /\ aux.kind = "retry"
  /\ aux.pc = "loop"
  /\ aux.attempt <= aux.cfg.maxRetries
  /\ LET made == Made(Len(aux.calls) + 1, o)
         lastResponse == IF o.threw THEN aux.lastResponse ELSE made
         lastError == IF o.threw THEN made ELSE aux.lastError
         end == exhausted(lastResponse, lastError)
     IN aux' =
          IF ~goesOn(aux.cfg, o)
          THEN [aux EXCEPT !.calls = Append(@, o), !.pc = "returned", !.result = made]
          ELSE IF aux.attempt + 1 <= aux.cfg.maxRetries
          THEN [aux EXCEPT !.calls = Append(@, o), !.attempt = @ + 1,
                           !.lastResponse = lastResponse, !.lastError = lastError]
          ELSE [aux EXCEPT !.calls = Append(@, o), !.attempt = @ + 1,
                           !.lastResponse = lastResponse, !.lastError = lastError,
                           !.pc = end.pc, !.result = end.result]
  /\ UNCHANGED <<rq, inflight, cache, sessions, now, wide>>

NextRetry == \E o \in FetchOutcomes : fetchFnSettles(o)

SpecRetry == InitRetry /\ [][NextRetry]_vars

(* ------------------------------------------------------------------ *)
(* Properties of fetchWithRetry                                        *)
(* ------------------------------------------------------------------ *)
Retrying == aux.kind = "retry"

\* the calls that were followed by another call
FollowedCalls == 1..(Len(aux.calls) - 1)

CallBound == Len(aux.calls) <= aux.cfg.maxRetries + 1

OneCallWhenNotRetryable ==
  (aux.calls # << >> /\ ~aux.calls[1].threw
     /\ aux.calls[1].status \notin aux.cfg.retryableCodes) =>
    aux.pc = "returned" /\ Len(aux.calls) = 1 /\ aux.result = Made(1, aux.calls[1])

C34_OutcomeOfLastAttempt ==
  (Retrying /\ aux.pc # "loop" /\ goesOn(aux.cfg, aux.calls[Len(aux.calls)])) =>
    /\ aux.result = Made(Len(aux.calls), aux.calls[Len(aux.calls)])
    /\ aux.pc = (IF aux.calls[Len(aux.calls)].threw THEN "threw" ELSE "returned")

(* ------------------------------------------------------------------ *)
(* Properties of the provider registry                                 *)
(* ------------------------------------------------------------------ *)
InRegistry == aux.kind = "registry"

\* the position of provider p in the array
IndexOf(arr, p) == CHOOSE k \in 1..Len(arr) : arr[k] = p

\* C32: getByPriority() returns every registered provider exactly once, in
\* descending order of priority, providers of equal priority in the order
\* of their registration, and leaves the registry's contents and the
\* registration order as they were
C32_SortedByPriority ==
  (InRegistry /\ aux.last.op = "getByPriority") =>
    /\ Len(aux.sorted) = Len(getAll)
    /\ \A k \in 1..Len(getAll) :
         Cardinality({j \in 1..Len(aux.sorted) : aux.sorted[j] = getAll[k]}) = 1
    /\ \A i, j \in 1..Len(aux.sorted) :
         i < j =>
           /\ priority(aux.sorted[i]) >= priority(aux.sorted[j])
           /\ priority(aux.sorted[i]) = priority(aux.sorted[j]) =>
                IndexOf(getAll, aux.sorted[i]) < IndexOf(getAll, aux.sorted[j])
    /\ aux.providers = aux.before
    /\ aux.order = aux.orderBefore

\* two providers came back in another order than they were registered in
C32_Witness ==
  /\ InRegistry
  /\ aux.last.op = "getByPriority"
  /\ Len(aux.sorted) = 2
  /\ aux.sorted[1] = getAll[2]
  /\ priority(aux.sorted[1]) > priority(aux.sorted[2])

C39_RemovedOnlyAfterCleanup ==
  InRegistry =>
    /\ aux.last.op = "cleanedUp" =>
         \A e \in aux.before : e.key \notin aux.late /\ e.value \in aux.invoked
    /\ aux.last.op \notin {"cleanedUp", "unregister"} =>
         aux.before \subseteq aux.providers

(* ------------------------------------------------------------------ *)
(* startProxy: reuse of a proxy that listens on the port               *)
(* ------------------------------------------------------------------ *)
MaxStarts == 3

\* the calls of startProxy, all for the same port
Starts == 1..MaxStarts

\* who listens on the port: nobody, another program, or the server of a call
Free == 0
Foreign == MaxStarts + 1

NotStarted == [pc |-> "idle", reused |-> FALSE, closed |-> FALSE, saw |-> Free]

InitPorts ==
  /\ rq = [r \in Req |-> Idle]
  /\ inflight = {}
  /\ cache = {}
  /\ sessions = [s \in SessionIds |-> NoRoute]
  /\ now = 0
  /\ wide = FALSE
  /\ \E l \in {Free, Foreign} :
       aux = [kind |-> "ports", listener |-> l, handles |-> [c \in Starts |-> NotStarted],
              last |-> Call(None, None, 0, FALSE), before |-> l]

\* a proxy of this program listens on the port
ProxyListens(l) == l \in Starts

\* startProxy up to "await checkExistingProxy(listenPort)"; saw remembers the
\* proxy that listened when the call was made, for as long as it listens
startProxy(c) ==
  /\ aux.kind = "ports"
  /\ aux.handles[c].pc = "idle"
  /\ aux' = [aux EXCEPT !.handles[c] = [@ EXCEPT !.pc = "checking",
                                         !.saw = IF ProxyListens(aux.listener)
                                                 THEN aux.listener ELSE Free],
                        !.last = Call("startProxy", None, c, FALSE),
                        !.before = aux.listener]
  /\ UNCHANGED <<rq, inflight, cache, sessions, now, wide>>

\* checkExistingProxy settled: a wallet only from a proxy that answers
\* /health in time; with a wallet the handle of the reuse branch is returned
checkExistingProxy(c, existingWallet) ==
  /\ aux.kind = "ports"
  /\ aux.handles[c].pc = "checking"
  /\ existingWallet => ProxyListens(aux.listener)
  /\ aux' = [aux EXCEPT !.handles[c] =
                          IF existingWallet
                          THEN [@ EXCEPT !.pc = "returned", !.reused = TRUE]
                          ELSE [@ EXCEPT !.pc = "listen"],
                        !.last = Call("checkExistingProxy", None, c, FALSE),
                        !.before = aux.listener]
  /\ UNCHANGED <<rq, inflight, cache, sessions, now, wide>>

\* server.listen(listenPort): 'listening', or 'error' with EADDRINUSE when
\* the port is taken, or with another code
listen(c, code) ==
  /\ aux.kind = "ports"
  /\ aux.handles[c].pc = "listen"
  /\ code = "EADDRINUSE" <=> aux.listener # Free
  /\ aux' = IF code = "EADDRINUSE"
            THEN [aux EXCEPT !.handles[c] = [@ EXCEPT !.pc = "returned", !.reused = TRUE],
                             !.last = Call("listen", None, c, FALSE),
                             !.before = aux.listener]
            ELSE IF code = "listening"
            THEN [aux EXCEPT !.handles[c] = [@ EXCEPT !.pc = "returned"],
                             !.listener = c,
                             !.last = Call("listen", None, c, FALSE),
                             !.before = aux.listener]
            ELSE [aux EXCEPT !.handles[c] = [@ EXCEPT !.pc = "rejected"],
                             !.last = Call("listen", None, c, TRUE),
                             !.before = aux.listener]
  /\ UNCHANGED <<rq, inflight, cache, sessions, now, wide>>

\* the listener after the server of call c stopped listening
Stopped(c) == IF aux.listener = c THEN Free ELSE aux.listener

\* the calls in progress that saw the server of c no longer have a proxy to reuse
Forget(handles, c) ==
  [x \in Starts |-> IF handles[x].saw = c /\ handles[x].pc \in {"checking", "listen"}
                    THEN [handles[x] EXCEPT !.saw = Free] ELSE handles[x]]

\* a close() that stops the server whoever started it
closeStopsAnyServer(c) ==
  /\ aux.kind = "ports"
  /\ aux.handles[c].pc = "returned"
  /\ ~aux.handles[c].closed
  /\ aux' = [aux EXCEPT !.handles = [@ EXCEPT ![c].closed = TRUE],
                        !.listener = IF ProxyListens(@) THEN Free ELSE @,
                        !.last = Call("close", None, c, FALSE),
                        !.before = aux.listener]
  /\ UNCHANGED <<rq, inflight, cache, sessions, now, wide>>

\* handle.close(): server.close() on the handle of 'listening', nothing on
\* the handles of the reuse branches
close(c) ==
  /\ aux.kind = "ports"
  /\ aux.handles[c].pc = "returned"
  /\ ~aux.handles[c].closed
  /\ aux' = IF aux.handles[c].reused
            THEN [aux EXCEPT !.handles[c] = [@ EXCEPT !.closed = TRUE],
                             !.last = Call("close", None, c, FALSE),
                             !.before = aux.listener]
            ELSE [aux EXCEPT !.handles = [Forget(@, c) EXCEPT ![c].closed = TRUE],
                             !.listener = Stopped(c),
                             !.last = Call("close", None, c, FALSE),
                             !.before = aux.listener]
  /\ UNCHANGED <<rq, inflight, cache, sessions, now, wide>>

NextPorts ==
  \/ \E c \in Starts : startProxy(c)
  \/ \E c \in Starts : \E w \in BOOLEAN : checkExistingProxy(c, w)
  \/ \E c \in Starts : \E code \in {"listening", "EADDRINUSE", "EACCES"} : listen(c, code)
  \/ \E c \in Starts : close(c)

SpecPorts == InitPorts /\ [][NextPorts]_vars

(* ------------------------------------------------------------------ *)
(* Properties of startProxy                                            *)
(* ------------------------------------------------------------------ *)
\* the handle of a call that started the server and has not closed it
Serving(c) ==
  aux.handles[c].pc = "returned" /\ ~aux.handles[c].reused /\ ~aux.handles[c].closed

\* C35: a startProxy called while a proxy listens on the port, and settled
\* while it still listens, returns a reused handle and does not reject;
\* close() on a reused handle leaves the listener as it was; close() on the
\* handle that started the server stops it, and nothing else does: the server
\* of a handle that is not closed is listening
C35_ReusedHandleLeavesServer ==
  aux.kind = "ports" =>
    /\ \A c \in Starts :
         (aux.handles[c].saw # Free /\ aux.handles[c].pc \in {"returned", "rejected"}) =>
           aux.handles[c].pc = "returned" /\ aux.handles[c].reused
    /\ \A c \in Starts :
         (aux.last.op = "close" /\ aux.last.inst = c) =>
           IF aux.handles[c].reused THEN aux.listener = aux.before
           ELSE aux.before = c /\ aux.listener = Free
    /\ \A c \in Starts : Serving(c) => aux.listener = c

\* a reused handle was closed while the server it reuses goes on listening,
\* and its own handle is open
C35_Witness ==
  /\ aux.kind = "ports"
  /\ aux.last.op = "close"
  /\ aux.handles[aux.last.inst].reused
  /\ aux.handles[aux.last.inst].saw # Free
  /\ ProxyListens(aux.listener)
  /\ Serving(aux.listener)

(* ------------------------------------------------------------------ *)
(* BalanceMonitor                                                      *)
(* ------------------------------------------------------------------ *)
MaxChecks == 3

MaxClock == 2

CACHE_TTL_MS == 30000

\* the calls of checkBalance
Checks == 1..MaxChecks

\* balances the RPC may report, and the amount of a deduction
Balances == {0, 5}
Null == 0 - 1

\* Date.now() at clock reading t
DateNow(t) == (t + 2) * TickMs

NotCalled == [pc |-> "idle", now |-> 0, balance |-> Null, fromRpc |-> FALSE,
              afterInvalidate |-> FALSE]

InitBalance ==
  /\ rq = [r \in Req |-> Idle]
  /\ inflight = {}
  /\ cache = {}
  /\ sessions = [s \in SessionIds |-> NoRoute]
  /\ now = 0
  /\ wide = FALSE
  /\ aux = [kind |-> "balance", cachedBalance |-> Null, cachedAt |-> 0, clock |-> 0,
            checks |-> [c \in Checks |-> NotCalled], invalidated |-> FALSE]

\* the cache holds a balance that is younger than the TTL
CacheValid(t) ==
  aux.cachedBalance # Null /\ DateNow(t) - aux.cachedAt < CACHE_TTL_MS

\* checkBalance up to "await this.fetchBalance()", or to its return when the
\* cache is valid; invalidated tells whether invalidate() returned since the
\* last start of a checkBalance
checkBalance(c) ==
  /\ aux.kind = "balance"
  /\ aux.checks[c].pc = "idle"
  /\ aux' = [aux EXCEPT !.checks[c] =
                          IF CacheValid(aux.clock)
                          THEN [@ EXCEPT !.pc = "returned", !.now = DateNow(aux.clock),
                                         !.balance = aux.cachedBalance,
                                         !.afterInvalidate = aux.invalidated]
                          ELSE [@ EXCEPT !.pc = "fetching", !.now = DateNow(aux.clock),
                                         !.fromRpc = TRUE,
                                         !.afterInvalidate = aux.invalidated],
                        !.invalidated = FALSE]
  /\ UNCHANGED <<rq, inflight, cache, sessions, now, wide>>

\* fetchBalance settled with a balance: the cache is written with the time
\* taken at the start of the call
fetchBalance(c, balance) ==
  /\ aux.kind = "balance"
  /\ aux.checks[c].pc = "fetching"
  /\ aux' = [aux EXCEPT !.checks[c] = [@ EXCEPT !.pc = "returned", !.balance = balance],
                        !.cachedBalance = balance,
                        !.cachedAt = aux.checks[c].now]
  /\ UNCHANGED <<rq, inflight, cache, sessions, now, wide>>

\* fetchBalance threw RpcError: checkBalance rejects, the cache is not written
RpcError(c) ==
  /\ aux.kind = "balance"
  /\ aux.checks[c].pc = "fetching"
  /\ aux' = [aux EXCEPT !.checks[c] = [@ EXCEPT !.pc = "threw"]]
  /\ UNCHANGED <<rq, inflight, cache, sessions, now, wide>>

deductEstimated(amountMicros) ==
  /\ aux.kind = "balance"
  /\ aux.cachedBalance # Null /\ aux.cachedBalance >= amountMicros
  /\ aux' = [aux EXCEPT !.cachedBalance = @ - amountMicros]
  /\ UNCHANGED <<rq, inflight, cache, sessions, now, wide>>

invalidate ==
  /\ aux.kind = "balance"
  /\ aux' = [aux EXCEPT !.cachedBalance = Null, !.cachedAt = 0, !.invalidated = TRUE]
  /\ UNCHANGED <<rq, inflight, cache, sessions, now, wide>>

\* time passes
ClockTick ==
  /\ aux.kind = "balance"
  /\ aux.clock < MaxClock
  /\ aux' = [aux EXCEPT !.clock = @ + 1]
  /\ UNCHANGED <<rq, inflight, cache, sessions, now, wide>>

NextBalance ==
  \/ \E c \in Checks : checkBalance(c)
  \/ \E c \in Checks : \E b \in Balances : fetchBalance(c, b)
  \/ \E c \in Checks : RpcError(c)
  \/ deductEstimated(5)
  \/ invalidate
  \/ ClockTick

SpecBalance == InitBalance /\ [][NextBalance]_vars

(* ------------------------------------------------------------------ *)
(* Properties of BalanceMonitor                                        *)
(* ------------------------------------------------------------------ *)
\* C40: the first checkBalance() that starts after invalidate() has returned
\* fetches the balance from the RPC and does not answer from the cache, also
\* when a fetch that started before invalidate() settles after it
C40_FetchAfterInvalidate ==
  aux.kind = "balance" =>
    \A c \in Checks : aux.checks[c].afterInvalidate => aux.checks[c].fromRpc

====
